---- MODULE Spec2Model ----
(***************************************************************************)
(* Model of the asynchronous transaction pipeline of FINANCE-API:          *)
(*   internal/transaction/worker.go  Worker (bounded channel, Run loop,   *)
(*                                   publish retry with backoff)          *)
(*   internal/api/handlers.go        Handlers.CreateTransaction (intake)  *)
(*   internal/storage/memory.go      TxRepo.UpsertTx (Memory / Postgres)  *)
(*   cmd/main.go                     wiring, start of Run, cancellation   *)
(* Durations are in milliseconds.                                          *)
(***************************************************************************)
EXTENDS Integers, Sequences, FiniteSets, TLC

\* ---------------------------------------------------------------- bounds
MaxQueueSize == 2          \* queueSize values given to NewWorker: 1..MaxQueueSize
MaxId == 2                 \* transaction identities 1..MaxId
MaxAmount == 2             \* amounts 1..MaxAmount
MaxEnqueue == 3            \* number of Enqueue calls in one behaviour
MaxRetryArg == 1           \* SetRetry is called with max in -1..MaxRetryArg

\* ------------------------------------------------------- program constants
DefaultPublishTimeout == 5000   \* 5 * time.Second
DefaultMaxRetries == 3
DefaultRetryBaseBackoff == 200  \* 200 * time.Millisecond

\* values the setters are called with
RetryArgs == (0 - 1)..MaxRetryArg
BackoffArgs == {100}
TimeoutArgs == {300}

Ids == 1..MaxId
Amounts == 1..MaxAmount

\* a time.Time: the instant, as whole seconds sec and the fraction nsec past
\* them, and the offset off (minutes) of the zone it is expressed in
NoTime == [sec |-> 0, nsec |-> 0, off |-> 0]
NoTx == [id |-> 0, user |-> 0, amount |-> 0, ts |-> NoTime, status |-> "none"]
NoEvt == [type |-> "none", version |-> 0, id |-> 0, user_id |-> 0, amount |-> 0,
          timestamp |-> NoTime]
NoCall == [tx |-> NoTx, sent |-> FALSE, ret |-> "none", full |-> FALSE]
NoSeq == [seq |-> 0, tx |-> NoTx]
NoResp == [code |-> 0, tele |-> "none"]

VARIABLES
  w,         \* the Worker's fields other than the channel
  ch,        \* w.ch: the buffered channel, oldest element first
  txs,       \* the repository: identity -> stored record (NoTx when absent)
  mainPc,    \* position of main: "wiring", "serving", "cancelled"
  pc,        \* position of the consumer goroutine in Run
  t,         \* Run's local t: the item in flight
  evt,       \* Run's local evt
  attempt,   \* the publish loop's counter
  err,       \* the publish loop's err is non-nil
  elapsed,   \* time passed since ctxPub was created
  deadline,  \* ctxPub's deadline, on the clock that elapsed reads
  resp,      \* the HTTP status and the telemetry call of the last step
  enqCalls,  \* history: number of Enqueue calls made
  lastEnq,   \* history: the Enqueue call made since the consumer's last step, if any
  chSeq,     \* history: acceptance numbers of the elements of ch
  accepted,  \* history: number of Enqueue calls that sent
  deqCount,  \* history: number of elements received by Run
  tSeq,      \* history: acceptance number and accepted value of the item in flight
  doneCount, \* history: number of passes ended
  doneSeq,   \* history: acceptance number of the item whose pass ended last
  pubLog,    \* history: the Publish calls made for the item in flight
  sleepLog,  \* history: the backoff sleeps made for the item in flight
  valLog,    \* history: the Validate calls made for the item in flight
  upsLog,    \* history: results of Run's UpsertTx for the item in flight
  outcome    \* history: how the pass of the item in flight ended

vars == <<w, ch, txs, mainPc, pc, t, evt, attempt, err, elapsed, deadline, resp,
          enqCalls, lastEnq, chSeq, accepted, deqCount, tSeq, doneCount, doneSeq,
          pubLog, sleepLog, valLog, upsLog, outcome>>

runVars == <<pc, t, evt, attempt, err, elapsed, deadline>>
enqLogs == <<enqCalls, lastEnq, chSeq, accepted>>
enqCounts == <<enqCalls, chSeq, accepted>>
orderLogs == <<deqCount, tSeq, doneCount, doneSeq>>
itemLogs == <<pubLog, sleepLog, valLog, upsLog, outcome>>

\* the context handed to Run has been cancelled
ctxDone == mainPc = "cancelled"

\* ------------------------------------------------------------ NewWorker
NewWorker(queueSize) ==
  [queueSize |-> queueSize,
   pub |-> FALSE,
   validator |-> FALSE,
   publishTimeout |-> DefaultPublishTimeout,
   maxRetries |-> DefaultMaxRetries,
   retryBaseBackoff |-> DefaultRetryBaseBackoff]

Init ==
  \* a buffered channel: queueSize >= 1 (main passes 100)
  /\ \E n \in 1..MaxQueueSize : w = NewWorker(n)
  /\ ch = <<>>
  /\ txs = [i \in Ids |-> NoTx]
  /\ mainPc = "wiring"
  /\ pc = "idle"
  /\ t = NoTx
  /\ evt = NoEvt
  /\ attempt = 0
  /\ err = FALSE
  /\ elapsed = 0
  /\ deadline = 0
  /\ resp = NoResp
  /\ enqCalls = 0
  /\ lastEnq = NoCall
  /\ chSeq = <<>>
  /\ accepted = 0
  /\ deqCount = 0
  /\ tSeq = NoSeq
  /\ doneCount = 0
  /\ doneSeq = 0
  /\ pubLog = <<>>
  /\ sleepLog = <<>>
  /\ valLog = <<>>
  /\ upsLog = <<>>
  /\ outcome = "none"

\* -------------------------------------------------------------- setters
\* main calls the setters between NewWorker and `go worker.Run(ctx)`.
WiringAnytime == TRUE
Wiring == mainPc = "wiring"

SetPublisher ==
  /\ Wiring
  /\ w' = [w EXCEPT !.pub = TRUE]
  /\ UNCHANGED <<ch, txs, mainPc, runVars, resp, enqLogs, orderLogs, itemLogs>>

SetValidator ==
  /\ Wiring
  /\ w' = [w EXCEPT !.validator = TRUE]
  /\ UNCHANGED <<ch, txs, mainPc, runVars, resp, enqLogs, orderLogs, itemLogs>>

SetPublishTimeout(d) ==
  /\ Wiring
  /\ w' = [w EXCEPT !.publishTimeout = d]
  /\ UNCHANGED <<ch, txs, mainPc, runVars, resp, enqLogs, orderLogs, itemLogs>>

SetRetry(max, baseBackoff) ==
  /\ Wiring
  /\ w' = [w EXCEPT !.maxRetries = max, !.retryBaseBackoff = baseBackoff]
  /\ UNCHANGED <<ch, txs, mainPc, runVars, resp, enqLogs, orderLogs, itemLogs>>

\* -------------------------------------------------------------- Enqueue
\* `case w.ch <- t` is ready iff the buffer has a free slot.
ChanCanSendOff(q, cap) == Len(q) <= cap
ChanCanSend(q, cap) == Len(q) < cap

\* the channel after the select of Enqueue: sent, or untouched on default
ChanSendAlways(q, cap, x) == Append(q, x)
ChanSendLifo(q, cap, x) == IF ChanCanSend(q, cap) THEN <<x>> \o q ELSE q
ChanSend(q, cap, x) == IF ChanCanSend(q, cap) THEN Append(q, x) ELSE q

\* Enqueue has no result in the source: the caller learns nothing.
NoReturn == "void"

\* the select of Enqueue has a default case: some case is always ready
SelectReadyNoDefault(q, cap) == ChanCanSend(q, cap)
SelectReady(q, cap) == ChanCanSend(q, cap) \/ TRUE

Enqueue(x) ==
  /\ SelectReady(ch, w.queueSize)
  /\ ch' = ChanSend(ch, w.queueSize, x)
  /\ enqCalls' = enqCalls + 1
  /\ lastEnq' = [tx |-> x, sent |-> ChanCanSend(ch, w.queueSize), ret |-> NoReturn,
                 full |-> Len(ch) = w.queueSize]
  /\ accepted' = IF ChanCanSend(ch, w.queueSize) THEN accepted + 1 ELSE accepted
  /\ chSeq' = ChanSend(chSeq, w.queueSize, [seq |-> accepted + 1, tx |-> x])

\* ---------------------------------------------------------------- UpsertTx
\* a write that keeps the record an identity already has
UpsertTxIfAbsent(store, x) ==
  IF store[x.id] = NoTx THEN [store EXCEPT ![x.id] = x] ELSE store

\* m.txs[t.ID] = t; INSERT ... ON CONFLICT (transaction_id) DO UPDATE SET ...
UpsertTx(store, x) == [store EXCEPT ![x.id] = x]

\* ------------------------------------------------------ CreateTransaction
\* The requests submitted: the request with amount a is made by user
\* AuthUserID(a) with timestamp text ReqTimestamp(a), so that two requests
\* with different amounts differ in owner and timestamp as well.
\* authUserID, err := uuid.Parse(authUserIDStr)
AuthUserID(a) == 10 + a

\* ts, err := time.Parse(time.RFC3339, req.Timestamp): the text may carry a
\* zone offset and, after the seconds, a fraction, which Parse keeps
ReqTimestamp(a) ==
  [sec |-> 100 + a,
   nsec |-> IF a % 2 = 0 THEN 500 ELSE 0,
   off |-> IF a % 2 = 1 THEN 60 ELSE 0]

\* t := storage.Transaction{..., Status: "queued"}
QueuedTxProcessed(id, amount) ==
  [id |-> id, user |-> AuthUserID(amount), amount |-> amount,
   ts |-> ReqTimestamp(amount), status |-> "processed"]
QueuedTx(id, amount) ==
  [id |-> id, user |-> AuthUserID(amount), amount |-> amount,
   ts |-> ReqTimestamp(amount), status |-> "queued"]

\* if err := h.TxRepo.UpsertTx(t); err != nil { ...; return }
PersistFailReturnsNot == FALSE
PersistFailReturns == TRUE

\* the response and the telemetry helper called, by the result of the upsert:
\* 500 with IncTransactionsFailed("db"), or 202 with no telemetry call
RespondByQueue(dbOk) ==
  IF dbOk /\ ChanCanSend(ch, w.queueSize) THEN [code |-> 202, tele |-> "none"]
  ELSE IF dbOk THEN [code |-> 503, tele |-> "none"]
  ELSE [code |-> 500, tele |-> "failed:db"]
Respond(dbOk) ==
  IF dbOk THEN [code |-> 202, tele |-> "none"]
          ELSE [code |-> 500, tele |-> "failed:db"]

\* dbOk: whether the repository call returns nil
CreateTransaction(id, amount, dbOk) ==
  LET x == QueuedTx(id, amount) IN
  /\ mainPc # "wiring"
  /\ enqCalls < MaxEnqueue
  /\ txs' = IF dbOk THEN UpsertTx(txs, x) ELSE txs
  /\ resp' = Respond(dbOk)
  /\ IF ~dbOk /\ PersistFailReturns
       THEN UNCHANGED <<ch, enqLogs>>
       ELSE Enqueue(x)
  /\ UNCHANGED <<w, mainPc, runVars, orderLogs, itemLogs>>

\* ------------------------------------------------------------------ main
\* go worker.Run(ctx); go srv.ListenAndServe()
Serve ==
  /\ mainPc = "wiring"
  /\ mainPc' = "serving"
  /\ UNCHANGED <<w, ch, txs, runVars, resp, enqLogs, orderLogs, itemLogs>>

\* <-sig; cancel()
Cancel ==
  /\ mainPc = "serving"
  /\ mainPc' = "cancelled"
  /\ resp' = NoResp
  /\ UNCHANGED <<w, ch, txs, runVars, enqLogs, orderLogs, itemLogs>>

\* ------------------------------------------------------------------- Run
\* the consumer goroutine is scheduled for the first time
RunStart ==
  /\ mainPc # "wiring"
  /\ lastEnq' = NoCall
  /\ resp' = NoResp
  /\ pc = "idle"
  /\ pc' = "select"
  /\ UNCHANGED <<w, ch, txs, mainPc, t, evt, attempt, err, elapsed, deadline,
                 enqCounts, orderLogs, itemLogs>>

\* 1 << attempt
RECURSIVE Shl1(_)
Shl1(n) == IF n <= 0 THEN 1 ELSE 2 * Shl1(n - 1)

\* time.Duration(1<<attempt) * w.retryBaseBackoff
BackoffSleepLinear(k, base) == (k + 1) * base
BackoffSleep(k, base) == Shl1(k) * base

\* attempt <= w.maxRetries
LoopCondStrict(k, max) == k < max
LoopCond(k, max) == k <= max

\* attempt < w.maxRetries
SleepCondAlways(k, max) == k <= max
SleepCond(k, max) == k < max

\* the element `<-w.ch` receives and the channel it leaves
ChanRecvLast(q) == q[Len(q)]
ChanRecv(q) == Head(q)
ChanRestFront(q) == SubSeq(q, 1, Len(q) - 1)
ChanRest(q) == Tail(q)

\* t.Timestamp.UTC(): the same instant, expressed in UTC
UTC(x) == [x EXCEPT !.off = 0]

\* Format(time.RFC3339): the layout 2006-01-02T15:04:05Z07:00 has no
\* fractional seconds, so the text carries none
FormatRFC3339(x) == [x EXCEPT !.nsec = 0]

\* the event built from t
BuildEvent(x) ==
  [type |-> "transaction.created", version |-> 1, id |-> x.id, user_id |-> x.user,
   amount |-> x.amount, timestamp |-> FormatRFC3339(UTC(x.ts))]

\* the pass of the item in flight ends with outcome o: back to the select
EndPass(o) ==
  /\ pc' = "select"
  /\ outcome' = o
  /\ doneCount' = doneCount + 1
  /\ doneSeq' = tSeq.seq

\* ctx.Done() is read only by the select at the top of the loop
DoneReadyInverted == ~ctxDone /\ pc = "select"
DoneReadyAnywhere == ctxDone /\ pc \in {"select", "delay", "backoff"}
DoneReady == ctxDone /\ pc = "select"

\* case <-ctx.Done(): return
RunStop ==
  /\ DoneReady
  /\ lastEnq' = NoCall
  /\ resp' = NoResp
  /\ pc' = "stopped"
  /\ UNCHANGED <<w, ch, txs, mainPc, t, evt, attempt, err, elapsed, deadline,
                 enqCounts, orderLogs, itemLogs>>

\* the receive is made only by the select at the top of the loop, which the
\* goroutine reaches again when the pass of the item in flight has ended
ReceiveReadyAnytime(q) == pc \in {"select", "delay", "backoff"} /\ q # <<>>
ReceiveReady(q) == pc = "select" /\ q # <<>>

\* case t := <-w.ch
RunReceive ==
  /\ ReceiveReady(ch)
  /\ lastEnq' = NoCall
  /\ resp' = NoResp
  /\ t' = ChanRecv(ch)
  /\ ch' = ChanRest(ch)
  /\ tSeq' = ChanRecv(chSeq)
  /\ chSeq' = ChanRest(chSeq)
  /\ deqCount' = deqCount + 1
  /\ pc' = "delay"
  /\ evt' = NoEvt
  /\ attempt' = 0
  /\ err' = FALSE
  /\ elapsed' = 0
  /\ deadline' = 0
  /\ pubLog' = <<>>
  /\ sleepLog' = <<>>
  /\ valLog' = <<>>
  /\ upsLog' = <<>>
  /\ outcome' = "none"
  /\ UNCHANGED <<w, txs, mainPc, enqCalls, accepted, doneCount, doneSeq>>

\* time.Sleep(w.delay); t.Status = "processed"
RunDelay ==
  /\ pc = "delay"
  /\ lastEnq' = NoCall
  /\ resp' = NoResp
  /\ t' = [t EXCEPT !.status = "processed"]
  /\ pc' = "upsert"
  /\ UNCHANGED <<w, ch, txs, mainPc, evt, attempt, err, elapsed, deadline,
                 enqCounts, orderLogs, itemLogs>>

\* after a failed UpsertTx: `continue`
UpsertFailEndsFallThrough == FALSE
UpsertFailEnds == TRUE

\* if err := w.repo.UpsertTx(t); err != nil { ...; continue }
RunUpsert(dbOk) ==
  /\ pc = "upsert"
  /\ lastEnq' = NoCall
  /\ resp' = NoResp
  /\ upsLog' = Append(upsLog, dbOk)
  /\ txs' = IF dbOk THEN UpsertTx(txs, t) ELSE txs
  /\ IF ~dbOk /\ UpsertFailEnds
       THEN EndPass("PersistFailed")
       ELSE /\ pc' = "build"
            /\ UNCHANGED <<outcome, doneCount, doneSeq>>
  /\ UNCHANGED <<w, ch, mainPc, t, evt, attempt, err, elapsed, deadline,
                 enqCounts, deqCount, tSeq, pubLog, sleepLog, valLog>>

\* evt := map[string]any{...}
RunBuild ==
  /\ pc = "build"
  /\ lastEnq' = NoCall
  /\ resp' = NoResp
  /\ evt' = BuildEvent(t)
  /\ pc' = "validate"
  /\ UNCHANGED <<w, ch, txs, mainPc, t, attempt, err, elapsed, deadline,
                 enqCounts, orderLogs, itemLogs>>

\* after a rejected event: `continue`
ValidateFailEndsFallThrough == FALSE
ValidateFailEnds == TRUE

\* if w.validator != nil
HasValidatorAlways(worker) == TRUE
HasValidator(worker) == worker.validator

\* if w.validator != nil { if err := w.validator.Validate(evt); err != nil { continue } }
RunValidate(valid) ==
  /\ pc = "validate"
  /\ lastEnq' = NoCall
  /\ resp' = NoResp
  /\ IF HasValidator(w)
       THEN /\ valLog' = Append(valLog, [doc |-> evt, ok |-> valid])
            /\ IF ~valid /\ ValidateFailEnds
                 THEN EndPass("ValidationFailed")
                 ELSE /\ pc' = "publish"
                      /\ UNCHANGED <<outcome, doneCount, doneSeq>>
       ELSE /\ valid
            /\ pc' = "publish"
            /\ UNCHANGED <<valLog, outcome, doneCount, doneSeq>>
  /\ UNCHANGED <<w, ch, txs, mainPc, t, evt, attempt, err, elapsed, deadline,
                 enqCounts, deqCount, tSeq, pubLog, sleepLog, upsLog>>

\* context.WithTimeout(ctx, w.publishTimeout): the deadline of ctxPub
WithTimeout(now, timeout) == now + timeout

\* ctxPub is created before the loop: the next attempt uses the same context
NextAttemptDeadlineFresh(dl, now, timeout) == WithTimeout(now, timeout)
NextAttemptDeadline(dl, now, timeout) == dl

\* if w.pub != nil
HasPublisherAlways(worker) == TRUE
HasPublisher(worker) == worker.pub

\* if w.pub != nil { ctxPub, cancel := context.WithTimeout(...); attempt := 0 }
\* else { warn "publisher is nil; skipping publish" }
RunPublishBegin ==
  /\ pc = "publish"
  /\ lastEnq' = NoCall
  /\ resp' = NoResp
  /\ IF HasPublisher(w)
       THEN /\ attempt' = 0
            /\ err' = FALSE
            /\ elapsed' = 0
            /\ deadline' = WithTimeout(0, w.publishTimeout)
            /\ pc' = IF LoopCond(0, w.maxRetries) THEN "attempt" ELSE "pubdone"
            /\ UNCHANGED <<outcome, doneCount, doneSeq>>
       ELSE /\ EndPass("PublishSkipped")
            /\ UNCHANGED <<attempt, err, elapsed, deadline>>
  /\ UNCHANGED <<w, ch, txs, mainPc, t, evt,
                 enqCounts, deqCount, tSeq, pubLog, sleepLog, valLog, upsLog>>

\* the context ctxPub is done: its deadline passed or its parent was cancelled
CtxPubDoneDetached == elapsed >= deadline
CtxPubDone == ctxDone \/ elapsed >= deadline

\* after a Publish that returned nil: `break`
PublishOkBreaksNot == FALSE
PublishOkBreaks == TRUE

\* err = w.pub.Publish(ctxPub, key, evt); if err == nil { break }
\* if attempt < w.maxRetries { sleep } else attempt++
RunPublishAttempt(ok) ==
  /\ pc = "attempt"
  /\ lastEnq' = NoCall
  /\ resp' = NoResp
  /\ pubLog' = Append(pubLog, [key |-> t.id, doc |-> evt, ok |-> ok,
                               attempt |-> attempt, late |-> CtxPubDone,
                               at |-> elapsed, deadline |-> deadline])
  /\ err' = ~ok
  /\ outcome' = IF ok THEN "PublishSucceeded" ELSE outcome
  /\ IF ok /\ PublishOkBreaks
       THEN /\ pc' = "pubdone"
            /\ attempt' = attempt
       ELSE IF ~ok /\ SleepCond(attempt, w.maxRetries)
              THEN /\ pc' = "backoff"
                   /\ attempt' = attempt
              ELSE /\ attempt' = attempt + 1
                   /\ pc' = IF LoopCond(attempt + 1, w.maxRetries)
                              THEN "attempt" ELSE "pubdone"
  /\ UNCHANGED <<w, ch, txs, mainPc, t, evt, elapsed, deadline,
                 enqCounts, orderLogs, sleepLog, valLog, upsLog>>

\* time.Sleep(sleep); attempt++
RunBackoff ==
  /\ pc = "backoff"
  /\ lastEnq' = NoCall
  /\ resp' = NoResp
  /\ sleepLog' = Append(sleepLog, BackoffSleep(attempt, w.retryBaseBackoff))
  /\ elapsed' = elapsed + BackoffSleep(attempt, w.retryBaseBackoff)
  /\ deadline' = NextAttemptDeadline(deadline,
                   elapsed + BackoffSleep(attempt, w.retryBaseBackoff),
                   w.publishTimeout)
  /\ attempt' = attempt + 1
  /\ pc' = IF LoopCond(attempt + 1, w.maxRetries) THEN "attempt" ELSE "pubdone"
  /\ UNCHANGED <<w, ch, txs, mainPc, t, evt, err,
                 enqCounts, orderLogs, pubLog, valLog, upsLog, outcome>>

\* the repository after the publish phase: the branch that logs the
\* permanent failure makes no repository call
RepoAfterPublishMarksFailed(store, x, failed) ==
  IF failed THEN UpsertTx(store, [x EXCEPT !.status = "failed"]) ELSE store
RepoAfterPublish(store, x, failed) == store

\* cancel(); if err != nil { error "kafka publish failed permanently" }
RunPublishEnd ==
  /\ pc = "pubdone"
  /\ lastEnq' = NoCall
  /\ resp' = NoResp
  /\ EndPass(IF err THEN "PublishExhausted" ELSE outcome)
  /\ txs' = RepoAfterPublish(txs, t, err)
  /\ UNCHANGED <<w, ch, mainPc, t, evt, attempt, err, elapsed, deadline,
                 enqCounts, deqCount, tSeq, pubLog, sleepLog, valLog, upsLog>>

Next ==
  \/ SetPublisher
  \/ SetValidator
  \/ \E d \in TimeoutArgs : SetPublishTimeout(d)
  \/ \E m \in RetryArgs, b \in BackoffArgs : SetRetry(m, b)
  \/ Serve
  \/ Cancel
  \/ \E i \in Ids, a \in Amounts, ok \in BOOLEAN : CreateTransaction(i, a, ok)
  \/ RunStart
  \/ RunStop
  \/ RunReceive
  \/ RunDelay
  \/ \E ok \in BOOLEAN : RunUpsert(ok)
  \/ RunBuild
  \/ \E ok \in BOOLEAN : RunValidate(ok)
  \/ RunPublishBegin
  \/ \E ok \in BOOLEAN : RunPublishAttempt(ok)
  \/ RunBackoff
  \/ RunPublishEnd

Spec == Init /\ [][Next]_vars

\* a step of the pass of the item in flight
RunStep ==
  \/ RunDelay
  \/ \E ok \in BOOLEAN : RunUpsert(ok)
  \/ RunBuild
  \/ \E ok \in BOOLEAN : RunValidate(ok)
  \/ RunPublishBegin
  \/ \E ok \in BOOLEAN : RunPublishAttempt(ok)
  \/ RunBackoff
  \/ RunPublishEnd

\* The goroutine of Run is scheduled, every sleep ends and every Repository,
\* Validator and Publisher call returns (weak fairness of the steps of a
\* pass); the select of Run chooses uniformly at random among its ready
\* cases, so a case that is ready at every visit is eventually chosen
\* (strong fairness of the exit case).
\* The termination of Run does not depend on the amounts submitted: the fair
\* specification submits requests of one amount.
FairNext ==
  \/ SetPublisher
  \/ SetValidator
  \/ \E d \in TimeoutArgs : SetPublishTimeout(d)
  \/ \E m \in RetryArgs, b \in BackoffArgs : SetRetry(m, b)
  \/ Serve
  \/ Cancel
  \/ \E i \in Ids, ok \in BOOLEAN : CreateTransaction(i, 1, ok)
  \/ RunStart
  \/ RunStop
  \/ RunReceive
  \/ RunDelay
  \/ \E ok \in BOOLEAN : RunUpsert(ok)
  \/ RunBuild
  \/ \E ok \in BOOLEAN : RunValidate(ok)
  \/ RunPublishBegin
  \/ \E ok \in BOOLEAN : RunPublishAttempt(ok)
  \/ RunBackoff
  \/ RunPublishEnd

FairSpec ==
  /\ Init
  /\ [][FairNext]_vars
  /\ WF_vars(RunStart)
  /\ WF_vars(RunStep)
  /\ SF_vars(RunStop)

\* ------------------------------------------------------------ properties
Min(a, b) == IF a <= b THEN a ELSE b

BoolStr(b) == IF b THEN "true" ELSE "false"

InFlight == pc \in {"delay", "upsert", "build", "validate", "publish",
                    "attempt", "backoff", "pubdone"}

C2_Bounded ==
  /\ [](Len(ch) >= 0 /\ Len(ch) <= w.queueSize)
  /\ [][w'.queueSize = w.queueSize]_vars

\* a full buffer with the consumer in a pass and a call already dropped
C2_Witness ==
  /\ Len(ch) = w.queueSize
  /\ InFlight
  /\ enqCalls > accepted

\* C3: Enqueue never blocks: whatever the consumer is doing and however full
\* the buffer is, a call can take its step; that one step either appends the
\* transaction or, exactly when the buffer is at capacity, drops it and
\* leaves the buffer unchanged.
C3_NonBlocking ==
  /\ []((mainPc # "wiring" /\ enqCalls < MaxEnqueue)
          => ENABLED (\E i \in Ids, a \in Amounts : CreateTransaction(i, a, TRUE)))
  /\ [][enqCalls' # enqCalls
          => /\ enqCalls' = enqCalls + 1
             /\ IF Len(ch) = w.queueSize
                  THEN ch' = ch /\ ~lastEnq'.sent
                  ELSE ch' = Append(ch, lastEnq'.tx) /\ lastEnq'.sent]_vars

\* a call dropped on a full buffer while the consumer was in a backoff sleep
C3_Witness ==
  /\ lastEnq # NoCall
  /\ lastEnq.full
  /\ ~lastEnq.sent
  /\ pc = "backoff"

\* C4: the consumer receives the accepted items in acceptance order and ends
\* their passes in that same order: the k-th item received is the k-th item
\* accepted, the k-th pass ended is that of the k-th item accepted, and the
\* buffer holds the following accepted items in acceptance order.
C4_Fifo ==
  /\ InFlight => (tSeq.seq = deqCount /\ tSeq.tx.id = t.id /\ tSeq.tx.amount = t.amount)
  /\ doneSeq = doneCount
  /\ doneCount = IF InFlight THEN deqCount - 1 ELSE deqCount
  /\ Len(chSeq) = Len(ch)
  /\ \A i \in 1..Len(ch) : chSeq[i].seq = deqCount + i /\ chSeq[i].tx = ch[i]
  /\ deqCount + Len(ch) = accepted

\* two different items of a full two-slot buffer both received and completed
C4_Witness ==
  /\ doneCount >= 2
  /\ accepted >= 3
  /\ InFlight
  /\ tSeq.seq = 3
  /\ ch = <<>>

\* 2^n, by table for the exponents the bounds reach and by doubling beyond
RECURSIVE Pow2(_)
Pow2(n) == IF n = 0 THEN 1 ELSE IF n = 1 THEN 2 ELSE IF n = 2 THEN 4
           ELSE IF n = 3 THEN 8 ELSE Pow2(n - 1) + Pow2(n - 1)

RECURSIVE SumSeq(_)
SumSeq(q) == IF q = <<>> THEN 0 ELSE Head(q) + SumSeq(Tail(q))

AllFailed == \A i \in 1..Len(pubLog) : ~pubLog[i].ok

PassEnded == pc \in {"select", "stopped"} /\ doneCount >= 1

\* C5: for an item whose Publish calls all fail, once the attempt loop is
\* left the Publisher has been called exactly maxRetries + 1 times, the calls
\* being attempts 0..maxRetries in order, whether or not ctxPub's deadline
\* had passed when a call was made, and the pass ends as PublishExhausted.
\* (The Publisher is invoked at all only when maxRetries >= 0.)
C5_AttemptBound ==
  /\ \A i \in 1..Len(pubLog) : pubLog[i].attempt = i - 1
  /\ Len(pubLog) <= (IF w.maxRetries >= 0 THEN w.maxRetries + 1 ELSE 0)
  /\ (pubLog # <<>> /\ AllFailed /\ pc \notin {"attempt", "backoff"})
       => /\ Len(pubLog) = w.maxRetries + 1
          /\ err
          /\ PassEnded => outcome = "PublishExhausted"

\* exhaustion whose last call was made after the deadline had passed, the
\* parent context not being cancelled
C5_Witness ==
  /\ PassEnded
  /\ outcome = "PublishExhausted"
  /\ mainPc = "serving"
  /\ w.maxRetries = DefaultMaxRetries
  /\ Len(pubLog) = DefaultMaxRetries + 1
  /\ pubLog[Len(pubLog)].late
  /\ ~pubLog[1].late

\* number of failed calls that were not the last allowed attempt
RECURSIVE FailedBeforeLast(_)
FailedBeforeLast(q) ==
  IF q = <<>> THEN 0
  ELSE (IF ~Head(q).ok /\ Head(q).attempt < w.maxRetries THEN 1 ELSE 0)
       + FailedBeforeLast(Tail(q))

\* C6: the k-th backoff sleep of an item (k = 0, 1, ...) lasts
\* retryBaseBackoff * 2^k; there is one sleep after every failed attempt
\* numbered below maxRetries and none after attempt maxRetries; so when all
\* maxRetries + 1 attempts failed the sleeps are maxRetries in number and add
\* up to retryBaseBackoff * (2^maxRetries - 1).
C6_Backoff ==
  /\ \A i \in 1..Len(sleepLog) : sleepLog[i] = w.retryBaseBackoff * Pow2(i - 1)
  /\ Len(sleepLog) = FailedBeforeLast(pubLog) - (IF pc = "backoff" THEN 1 ELSE 0)
  /\ (pubLog # <<>> /\ ~pubLog[Len(pubLog)].ok /\ pubLog[Len(pubLog)].attempt = w.maxRetries)
       => pc # "backoff"
  /\ (pubLog # <<>> /\ AllFailed /\ pc \notin {"attempt", "backoff"})
       => /\ Len(sleepLog) = w.maxRetries
          /\ SumSeq(sleepLog) = w.retryBaseBackoff * (Pow2(w.maxRetries) - 1)
          /\ elapsed = SumSeq(sleepLog)

\* default policy, every attempt failed: sleeps of 200, 400 and 800 ms
C6_Witness ==
  /\ PassEnded
  /\ outcome = "PublishExhausted"
  /\ sleepLog = <<200, 400, 800>>
  /\ Len(pubLog) = 4

\* C7: a Publish call that returns nil is the last call of its item: if it
\* is attempt k, then k + 1 calls and k sleeps were made for the item, the
\* loop is left, and the pass ends as PublishSucceeded.
C7_FirstSuccessEnds ==
  \A i \in 1..Len(pubLog) :
    pubLog[i].ok
      => /\ i = Len(pubLog)
         /\ pubLog[i].attempt = i - 1
         /\ i - 1 <= w.maxRetries
         /\ Len(sleepLog) = i - 1
         /\ pc \notin {"attempt", "backoff"}
         /\ ~err
         /\ outcome = "PublishSucceeded"

\* maxRetries 3, base 200 ms: the first call fails and the second succeeds
C7_Witness ==
  /\ PassEnded
  /\ w.maxRetries = 3
  /\ Len(pubLog) = 2
  /\ ~pubLog[1].ok
  /\ pubLog[2].ok
  /\ sleepLog = <<200>>
  /\ outcome = "PublishSucceeded"

\* C8: when the Validator rejects the item's event, the Publisher is not
\* called for the item and the consumer is back at its select, ready for the
\* next element of the channel.
C8_ValidationGate ==
  (\E i \in 1..Len(valLog) : ~valLog[i].ok)
    => /\ pubLog = <<>>
       /\ sleepLog = <<>>
       /\ Len(valLog) = 1
       /\ outcome = "ValidationFailed"
       /\ pc \in {"select", "stopped"}

\* a rejected event with a Publisher configured and the next item waiting
C8_Witness ==
  /\ w.validator
  /\ w.pub
  /\ valLog # <<>>
  /\ ~valLog[1].ok
  /\ pc = "select"
  /\ ch # <<>>

\* C9: with no Publisher configured, the successful UpsertTx of Run stores
\* the item with status processed, no Publish call and no backoff sleep is
\* ever made, and an item that passed the upsert and the validation gate
\* ends as PublishSkipped.
C9_NoPublisher ==
  /\ [](~w.pub
          => /\ pubLog = <<>>
             /\ sleepLog = <<>>
             /\ pc \notin {"attempt", "backoff", "pubdone"}
             /\ (PassEnded /\ upsLog = <<TRUE>> /\ (\A i \in 1..Len(valLog) : valLog[i].ok))
                  => outcome = "PublishSkipped")
  /\ [][(~w.pub /\ pc = "upsert" /\ pc' = "build")
          => /\ t.status = "processed"
             /\ txs'[t.id] = t
             /\ \A i \in Ids : i # t.id => txs'[i] = txs[i]]_vars

\* no Publisher, a Validator that passed: skipped, and the record is processed
C9_Witness ==
  /\ ~w.pub
  /\ w.validator
  /\ PassEnded
  /\ outcome = "PublishSkipped"
  /\ upsLog = <<TRUE>>
  /\ txs[t.id] = t
  /\ t.status = "processed"

\* C10: when the UpsertTx of Run fails for an item, the repository is left
\* as it was (the record keeps its prior status), no event is built, neither
\* Validator nor Publisher is called for the item, and the consumer is back
\* at its select.
C10_PersistFailure ==
  /\ []((\E i \in 1..Len(upsLog) : ~upsLog[i])
          => /\ evt = NoEvt
             /\ valLog = <<>>
             /\ pubLog = <<>>
             /\ sleepLog = <<>>
             /\ Len(upsLog) = 1
             /\ outcome = "PersistFailed"
             /\ pc \in {"select", "stopped"})
  /\ [][(pc = "upsert" /\ upsLog' = <<FALSE>>) => txs' = txs]_vars

\* a failed upsert with Validator and Publisher configured: the record is
\* still queued and the next item is waiting
C10_Witness ==
  /\ upsLog = <<FALSE>>
  /\ w.validator
  /\ w.pub
  /\ txs[t.id].status = "queued"
  /\ pc = "select"
  /\ ch # <<>>

\* C11: at most one item is in flight: the passes ended and the items
\* received differ by one exactly while a pass is running, and an item is
\* received only at the select, when the pass of every item received before
\* has ended.
C11_Sequential ==
  /\ [](/\ deqCount - doneCount \in {0, 1}
        /\ InFlight <=> (deqCount = doneCount + 1)
        /\ InFlight => t # NoTx)
  /\ [][deqCount' # deqCount
          => /\ pc = "select"
             /\ doneCount = deqCount
             /\ deqCount' = deqCount + 1
             /\ doneCount' = doneCount
             /\ pc' = "delay"]_vars

\* the second item waits in the buffer while the first one is in a backoff sleep
C11_Witness ==
  /\ pc = "backoff"
  /\ ch # <<>>
  /\ deqCount = 1
  /\ doneCount = 0

\* C12: once the context is cancelled no item is received any more, so the
\* items then in the buffer are never stored as processed by Run.
C12_NoDequeueAfterCancel ==
  [][ctxDone => (deqCount' = deqCount /\ Len(ch') >= Len(ch))]_vars

\* C13: a cancellation raised during an item's publish sequence, before the
\* deadline of ctxPub, leaves ctxPub live.
C13_PublishContextSurvivesCancel ==
  [][(pc \in {"attempt", "backoff"} /\ ~ctxDone /\ ctxDone' /\ elapsed < deadline)
       => ~CtxPubDone']_vars

\* C14: the deadline of ctxPub is set once, when the publish phase of the
\* item begins, to that moment plus publishTimeout; every Publish call of
\* the item is made with that deadline, and no step of the attempt loop
\* changes it.
C14_SingleDeadline ==
  /\ [](\A i \in 1..Len(pubLog) :
          /\ pubLog[i].deadline = w.publishTimeout
          /\ pubLog[i].deadline = pubLog[1].deadline
          /\ pubLog[i].at >= pubLog[1].at)
  /\ [](pc \in {"attempt", "backoff", "pubdone"} => deadline = w.publishTimeout)
  /\ [][(pc \in {"attempt", "backoff"}) => (deadline' = deadline)]_vars

\* a second call made after a backoff sleep, under the deadline of the first
C14_Witness ==
  /\ Len(pubLog) >= 2
  /\ pubLog[1].at = 0
  /\ pubLog[2].at = DefaultRetryBaseBackoff
  /\ pubLog[2].deadline = DefaultPublishTimeout

\* C15: a record gets status processed only by the successful UpsertTx of
\* Run, which writes the received copy of that transaction; every write of
\* the intake path has status queued; no record ever has status failed.
C15_ProcessedOnlyByLoop ==
  /\ [](/\ \A i \in Ids : txs[i] = NoTx \/ txs[i].status \in {"queued", "processed"}
        /\ \A k \in 1..Len(ch) : ch[k].status = "queued")
  /\ [][\A i \in Ids :
          txs'[i] # txs[i]
            => IF txs'[i].status = "processed"
                 THEN /\ pc = "upsert"
                      /\ pc' = "build"
                      /\ upsLog' = <<TRUE>>
                      /\ txs'[i] = t
                      /\ tSeq.tx.id = i
                      /\ tSeq.tx.amount = txs'[i].amount
                      /\ enqCalls' = enqCalls
                 ELSE /\ txs'[i].status = "queued"
                      /\ resp'.code = 202
                      /\ enqCalls' = enqCalls + 1]_vars

\* one record processed by Run beside one the intake path left queued
C15_Witness ==
  /\ txs[1].status = "processed"
  /\ txs[2].status = "queued"
  /\ upsLog = <<TRUE>>
  /\ t.id = 1

\* C16: the intake path calls Enqueue only after its UpsertTx of the queued
\* transaction returned nil; when that UpsertTx fails, Enqueue is not called
\* and channel and repository stay as they were; so every transaction in the
\* channel has a stored record of its identity.
C16_UpsertBeforeEnqueue ==
  /\ [](\A k \in 1..Len(ch) : txs[ch[k].id] # NoTx /\ txs[ch[k].id].id = ch[k].id)
  /\ [][resp'.code = 500
          => (ch' = ch /\ enqCalls' = enqCalls /\ accepted' = accepted /\ txs' = txs)]_vars
  /\ [][enqCalls' # enqCalls
          => /\ resp'.code = 202
             /\ lastEnq'.tx.status = "queued"
             /\ txs'[lastEnq'.tx.id] = lastEnq'.tx]_vars

\* a failed intake upsert with room in the buffer: nothing stored, nothing queued
C16_Witness ==
  /\ resp.code = 500
  /\ Len(ch) < w.queueSize
  /\ enqCalls = 0
  /\ \A i \in Ids : txs[i] = NoTx

\* a copy of identity i is still to be written by Run
Pending(i) ==
  \/ \E k \in 1..Len(ch) : ch[k].id = i
  \/ pc \in {"delay", "upsert"} /\ t.id = i

StaysQueued(i) == txs[i].status = "queued" /\ ~Pending(i)

\* C17: an Enqueue call drops only on a full buffer, and the dropped
\* transaction is then stored as the intake path wrote it, with status
\* queued; when no accepted copy of its identity is waiting to be processed,
\* the record keeps status queued in every later state until a submission of
\* that identity is accepted.
C17_DroppedStaysQueued ==
  /\ [][\A i \in Ids :
          (enqCalls' # enqCalls /\ ~lastEnq'.sent /\ lastEnq'.tx.id = i)
            => /\ lastEnq'.full
               /\ ch' = ch
               /\ txs'[i] = lastEnq'.tx
               /\ txs'[i].status = "queued"
               /\ ~Pending(i) => StaysQueued(i)']_vars
  /\ [][\A i \in Ids :
          (StaysQueued(i) /\ ~(enqCalls' # enqCalls /\ lastEnq'.sent /\ lastEnq'.tx.id = i))
            => StaysQueued(i)']_vars

\* a transaction dropped while the consumer sleeps in a backoff for another
\* identity: its record is queued and no copy of it is waiting
C17_Witness ==
  /\ lastEnq # NoCall
  /\ ~lastEnq.sent
  /\ StaysQueued(lastEnq.tx.id)
  /\ txs[lastEnq.tx.id] = lastEnq.tx
  /\ pc = "backoff"
  /\ t.id # lastEnq.tx.id

\* the counter event of a terminal outcome
TeleOf(o) ==
  IF o = "PersistFailed" THEN "failed:db"
  ELSE IF o = "ValidationFailed" THEN "failed:schema"
  ELSE IF o = "PublishSucceeded" THEN "processed"
  ELSE IF o = "PublishExhausted" THEN "failed:kafka"
  ELSE "none"

\* C18: the step that drops a transaction in Enqueue emits the drop counter
\* event, and the step that ends a pass as db failure, schema failure,
\* publish success or publish exhaustion emits that outcome's counter event,
\* once.
C18_CountersEmitted ==
  [][/\ (enqCalls' # enqCalls /\ ~lastEnq'.sent) => resp'.tele = "dropped"
     /\ (doneCount' # doneCount
           /\ outcome' \in {"PersistFailed", "ValidationFailed",
                            "PublishSucceeded", "PublishExhausted"})
          => resp'.tele = TeleOf(outcome')]_vars

Records(store) == {i \in Ids : store[i] # NoTx}

\* the step wrote x by an upsert: the record of x's identity is x, the other
\* records are as they were, and a record is added only if none was there
Upserted(x) ==
  /\ txs'[x.id] = x
  /\ \A i \in Ids : i # x.id => txs'[i] = txs[i]
  /\ Cardinality(Records(txs')) =
       Cardinality(Records(txs)) + (IF txs[x.id] = NoTx THEN 0 + 1 ELSE 0)

\* C19: every successful UpsertTx, of the intake path or of Run, leaves one
\* record for the identity written, equal to the value written (so a second
\* write of an identity with another amount replaces the first), and leaves
\* the records of the other identities unchanged; no other step writes.
C19_UpsertIdempotent ==
  [][IF enqCalls' # enqCalls THEN Upserted(lastEnq'.tx)
     ELSE IF pc = "upsert" /\ upsLog' = <<TRUE>> THEN Upserted(t)
     ELSE txs' = txs]_vars

\* one identity submitted twice with different amounts, both copies in the
\* buffer: one record, holding the second amount, beside another identity's
C19_Witness ==
  /\ Len(ch) = 2
  /\ ch[1].id = ch[2].id
  /\ ch[1].amount # ch[2].amount
  /\ txs[ch[2].id] = ch[2]
  /\ Cardinality(Records(txs)) = 2

TerminalOutcomes == {"PersistFailed", "ValidationFailed", "PublishSucceeded",
                     "PublishExhausted", "PublishSkipped"}

\* C20: every pass that has ended has ended with exactly one of the five
\* terminal outcomes, the consumer then being back at its select.
C20_TerminalOutcome ==
  (doneCount >= 1 /\ ~InFlight)
    => /\ outcome \in TerminalOutcomes
       /\ pc \in {"select", "stopped"}

\* the response of an intake call whose transaction was recorded
Accepted == [code |-> 202, tele |-> "none"]

\* C21: every intake call that recorded its transaction answers 202 (status
\* queued), whether Enqueue sent the transaction or dropped it and whatever
\* state the consumer is in; the steps of the consumer, whatever their
\* outcome, produce no response.
C21_ResponseIndependent ==
  /\ [][enqCalls' # enqCalls
          => /\ resp' = Accepted
             /\ txs'[lastEnq'.tx.id] = lastEnq'.tx]_vars
  /\ [][pc' # pc => resp' = NoResp]_vars
  /\ [](resp.code \in {0, 202, 500})

\* a call answered 202 although its transaction was dropped, made after the
\* pass of an earlier item ended in publish exhaustion
C21_Witness ==
  /\ resp = Accepted
  /\ lastEnq # NoCall
  /\ ~lastEnq.sent
  /\ doneCount >= 1
  /\ outcome = "PublishExhausted"

\* two time values denote the same instant
SameInstant(a, b) == a.sec = b.sec /\ a.nsec = b.nsec

\* C22: the event of the item in flight has kind transaction.created,
\* version 1, and the id, user_id, amount and (in UTC) the timestamp of the
\* dequeued transaction; the Validate call and every Publish call of the
\* item receive that event, and every Publish call has the transaction
\* identity as key.
C22_EventOfTransaction ==
  /\ pc \in {"validate", "publish", "attempt", "backoff", "pubdone"}
       => /\ evt.type = "transaction.created"
          /\ evt.version = 1
          /\ evt.id = tSeq.tx.id
          /\ evt.user_id = tSeq.tx.user
          /\ evt.amount = tSeq.tx.amount
          /\ evt.timestamp.off = 0
          /\ SameInstant(evt.timestamp, tSeq.tx.ts)
  /\ \A k \in 1..Len(valLog) : valLog[k].doc = evt
  /\ \A k \in 1..Len(pubLog) : pubLog[k].doc = evt /\ pubLog[k].key = tSeq.tx.id

\* C23: Validate is called only after Run's UpsertTx of the item returned
\* nil; Publish is called only after that and after the gate passed (one
\* Validate call that accepted, or no Validator and no call); the successful
\* UpsertTx wrote the processed record of the item's identity.
C23_StepOrder ==
  /\ [](valLog # <<>> => upsLog = <<TRUE>>)
  /\ [](pubLog # <<>>
          => /\ upsLog = <<TRUE>>
             /\ IF w.validator
                  THEN Len(valLog) = 1 /\ valLog[1].ok
                  ELSE valLog = <<>>)
  /\ [][(upsLog = <<>> /\ upsLog' = <<TRUE>>)
          => /\ t.status = "processed"
             /\ txs'[t.id] = t]_vars
  /\ [][(pubLog' # pubLog /\ pubLog' # <<>>)
          => /\ pc = "attempt"
             /\ upsLog = <<TRUE>>
             /\ t.status = "processed"]_vars

\* a second Publish call for an item that was stored and validated
C23_Witness ==
  /\ Len(pubLog) = 2
  /\ upsLog = <<TRUE>>
  /\ Len(valLog) = 1
  /\ valLog[1].ok
  /\ txs[t.id] = t

AfterPersist == {"build", "validate", "publish", "attempt", "backoff", "pubdone"}

\* C24: after Run's UpsertTx of an item, no step of that item's pass changes
\* the repository (only an intake call can); so while the record of the
\* item's identity has status processed it is the record Run wrote, through
\* validation failure, publish success, exhaustion and skip.
C24_NoWriteAfterPersist ==
  /\ [][(pc \in AfterPersist /\ enqCalls' = enqCalls) => txs' = txs]_vars
  /\ []((upsLog = <<TRUE>> /\ txs[t.id].status = "processed") => txs[t.id] = t)
  /\ [](\A i \in Ids : txs[i].status # "failed")

\* a pass ended in publish exhaustion, the record still as Run stored it
C24_Witness ==
  /\ PassEnded
  /\ outcome = "PublishExhausted"
  /\ upsLog = <<TRUE>>
  /\ txs[t.id] = t
  /\ t.status = "processed"

\* C25: Run returns only from its select, on a cancelled context; while an
\* item is in flight the next step of its pass is enabled, cancelled or not,
\* and a pass that exhausts its attempts under a cancelled context has still
\* made maxRetries + 1 Publish calls and maxRetries backoff sleeps.
C25_CancelNeverInterrupts ==
  /\ [][(pc # "stopped" /\ pc' = "stopped") => (pc = "select" /\ ctxDone)]_vars
  /\ []((InFlight /\ ctxDone) => ENABLED RunStep)
  /\ []((ctxDone /\ PassEnded /\ outcome = "PublishExhausted")
          => /\ Len(pubLog) = w.maxRetries + 1
             /\ Len(sleepLog) = w.maxRetries)

\* Run has returned after an item that was between its first and second
\* Publish call when the context was cancelled, and that made every attempt
C25_Witness ==
  /\ pc = "stopped"
  /\ outcome = "PublishExhausted"
  /\ Len(pubLog) = DefaultMaxRetries + 1
  /\ ~pubLog[1].late
  /\ pubLog[2].late
  /\ pubLog[2].at < pubLog[2].deadline

\* C26: under the fair specification, once the context is cancelled Run
\* eventually returns, whatever the buffer holds and whatever intake calls
\* are still made.
C26_EventuallyExits == ctxDone ~> (pc = "stopped")

\* Run has returned although a transaction accepted after the cancellation
\* is still in the buffer
C26_Witness ==
  /\ pc = "stopped"
  /\ ch # <<>>
  /\ deqCount >= 1
  /\ lastEnq # NoCall
  /\ lastEnq.sent

\* C27: with no Validator configured no Validate call is made and no pass
\* ends in ValidationFailed; the step taken at the gate, which only items
\* whose upsert succeeded reach, leads to the publish phase and ends no pass.
C27_NoValidatorPassThrough ==
  /\ [](~w.validator => (valLog = <<>> /\ outcome # "ValidationFailed"))
  /\ []((~w.validator /\ pc = "validate") => upsLog = <<TRUE>>)
  /\ [][(~w.validator /\ pc = "validate" /\ pc' # pc)
          => (pc' = "publish" /\ doneCount' = doneCount /\ evt' = evt)]_vars

\* the second item has passed the gate with no Validator and no Validate call
C27_Witness ==
  /\ ~w.validator
  /\ pc = "publish"
  /\ upsLog = <<TRUE>>
  /\ valLog = <<>>
  /\ doneCount >= 1

\* C28: a stored record with status processed has status processed after
\* every step.
C28_StatusMonotone ==
  [][\A i \in Ids : txs[i].status = "processed" => txs'[i].status = "processed"]_vars

\* amount, owner and timestamp of two records are the same
SamePayload(a, b) == a.amount = b.amount /\ a.user = b.user /\ a.ts = b.ts

\* C29: an intake submission leaves its amount, owner and timestamp in the
\* stored record of its identity, and no other step changes the amount,
\* owner or timestamp of a stored record; so the record always carries those
\* of the most recent submission.
C29_LatestSubmissionKept ==
  [][/\ enqCalls' # enqCalls => SamePayload(txs'[lastEnq'.tx.id], lastEnq'.tx)
     /\ enqCalls' = enqCalls
          => \A i \in Ids : txs[i] # NoTx => SamePayload(txs'[i], txs[i])]_vars

\* C30: a pass that reached the publish phase with a Publisher configured
\* has made at least one Publish call and has ended as PublishSucceeded or
\* as PublishExhausted, for every maxRetries given to SetRetry.
C30_PublishPhaseOutcome ==
  (PassEnded /\ w.pub /\ upsLog = <<TRUE>> /\ outcome # "ValidationFailed")
    => /\ Len(pubLog) >= 1
       /\ outcome \in {"PublishSucceeded", "PublishExhausted"}

\* C31: the fields of the Worker change only while main is wiring, before
\* Run is started and before any item is received; so during a pass the
\* publisher, the validator, publishTimeout, maxRetries and retryBaseBackoff
\* are constant, and every Publish call is made on the publisher the nil
\* check saw.
C31_WiringBeforeRun ==
  /\ [][w' # w => (mainPc = "wiring" /\ pc = "idle" /\ deqCount = 0 /\ ch = <<>>)]_vars
  /\ [](pc # "idle" => mainPc # "wiring")
  /\ [][(pc # "idle" \/ InFlight) => w' = w]_vars
  /\ [](pubLog # <<>> => (w.pub /\ deadline = w.publishTimeout))
  /\ [](\A k \in 1..Len(sleepLog) : sleepLog[k] = BackoffSleep(k - 1, w.retryBaseBackoff))
  /\ [](Len(pubLog) <= w.maxRetries + 1)

\* an item in a backoff sleep under a configuration made by all four setters
C31_Witness ==
  /\ pc = "backoff"
  /\ w.pub
  /\ w.validator
  /\ w.publishTimeout = 300
  /\ w.maxRetries = 1
  /\ w.retryBaseBackoff = 100
  /\ Len(pubLog) = 1
  /\ mainPc = "cancelled"
====
